---- MODULE Spec2Model ----
(***************************************************************************)
(* Model of devops_monitor.py: a simulated CI/CD dashboard.  Every request *)
(* handler and every run thread works on three shared stores, the files    *)
(* builds.json (current runs), history.json and logs/<id>.log.  The server *)
(* is threaded, so each file access of a handler or of a run thread is one *)
(* atomic step and the steps of different threads interleave freely.       *)
(***************************************************************************)
EXTENDS Integers, Sequences, FiniteSets, TLC

\* ---------------------------------------------------------------- bounds
MaxRuns == 2            \* number of POST /api/run requests
MaxResets == 1          \* number of POST /api/reset requests
MaxClock == 1           \* the clock (seconds) stops advancing here
MaxHist == 4            \* entries of a history.json handed to _calc_stats

\* ------------------------------------------------------- program constants
Cap == 100              \* curr[:100]

NoStep == "None"        \* current_step = None
NoTime == -1            \* finished_at = None, duration_s = None

PIPELINE ==
  [ app_ci |-> << "checkout", "install-deps", "lint", "unit-tests",
                  "build-artifact", "deploy-staging" >>,
    api_ci |-> << "checkout", "install-deps", "unit-tests", "integration-tests",
                  "security-scan", "docker-build", "deploy-prod" >> ]

Fallback == << "checkout", "unit-tests", "deploy-staging" >>

\* mutant: PIPELINE.get(job, []), an unknown job has no steps
StepsFor_NoFallback(job) ==
  IF job = "app-ci" THEN PIPELINE.app_ci
  ELSE IF job = "api-ci" THEN PIPELINE.api_ci
  ELSE << >>

\* PIPELINE.get(job, [...]) of api_run
StepsFor(job) ==
  IF job = "app-ci" THEN PIPELINE.app_ci
  ELSE IF job = "api-ci" THEN PIPELINE.api_ci
  ELSE Fallback

\* data.get("job") or "app-ci": a missing or empty job name is app-ci
JobOf(input) == IF input = "" THEN "app-ci" ELSE input

JobInputs == { "", "app-ci", "api-ci", "web-ci" }

RunIds == 1..MaxRuns

\* -------------------------------------------------------------- files
\* A JSON file is valid (data is its list), missing, empty (just truncated
\* by open(path, "w")) or garbage (overlapping writes).
File(list) == [ st |-> "valid", data |-> list ]
Missing == [ st |-> "missing", data |-> << >> ]
Truncated == [ st |-> "empty", data |-> << >> ]
Garbage == [ st |-> "garbage", data |-> << >> ]

\* _load_json: the default when the file is missing or json.load raises
_load_json(f, default) == IF f.st = "valid" THEN f.data ELSE default

\* _save_json, first half: open(path, "w") truncates the file
SaveOpen(f) == Truncated

\* _save_json, second half: json.dump writes at offset 0 of what is there.
\* Onto an empty file the result is the document; onto bytes another writer
\* put there after the truncation it is the document when that is at least
\* as long, and unparsable otherwise.
SaveWrite(f, list) ==
  IF f.st = "empty" THEN { File(list) } ELSE { File(list), Garbage }

\* ---------------------------------------------------------------- state
VARIABLES
  builds,     \* builds.json (DATA_CURRENT)
  history,    \* history.json (DATA_HISTORY)
  logs,       \* logs/<id>.log as a sequence of lines; << >> when absent
  run,        \* the run dict of each run id
  pc,         \* where the handler / thread of each run stands
  idx,        \* position of the for loop of _simulate_pipeline in steps
  start,      \* start = time.time() of _simulate_pipeline
  loc,        \* the list a thread has loaded and is about to save
  now,        \* the wall clock, in seconds
  rpc,        \* where the reset handler stands
  rglob,      \* the log files glob.glob returned and os.remove has not reached
  todo,       \* the requests the clients have yet to send
  nAppend,    \* history saves completed by each run thread
  nOld,       \* entries builds.json held when the server started
  stats       \* the last result of _calc_stats

vars == << builds, history, logs, run, pc, idx, start, loc, now, rpc, rglob,
           todo, nAppend, nOld, stats >>

\* the dict api_run builds
NewRun(id, job, t) ==
  [ id |-> id, job |-> job, status |-> "running", steps |-> StepsFor(job),
    current_step |-> IF StepsFor(job) # << >> THEN StepsFor(job)[1] ELSE NoStep,
    started_at |-> t, finished_at |-> NoTime, duration_s |-> NoTime ]

NoRun == NewRun(0, "app-ci", 0)

\* An entry left in builds.json by a run thread of an earlier server
\* process (threads are daemons: they die with the process).
OldIds == { -i : i \in 1..Cap }
OldRun(i) == NewRun(-i, "web-ci", 0)
OldList(n) == [ i \in 1..n |-> OldRun(i) ]

\* mutant: with nothing to average the result has None for mttr_minutes
NoStats_MttrNone == [ deploys_today |-> 0, success_rate |-> 0, cfr |-> 0,
                      avg_duration |-> 0, mttr_minutes |-> NoTime ]

\* line 208, the result on an empty history
NoStats == [ deploys_today |-> 0, success_rate |-> 0, cfr |-> 0,
             avg_duration |-> 0, mttr_minutes |-> 0 ]

\* no GET /api/stats has been answered yet
NoResponse == [ deploys_today |-> -1, success_rate |-> -1, cfr |-> -1,
                avg_duration |-> -1, mttr_minutes |-> -1 ]

\* What the clients send: MaxRuns overlapping runs of the fallback
\* pipeline, or one run of any job and MaxResets resets.
Workloads ==
  [ jobs : [ 1..MaxRuns -> { "web-ci" } ], resets : { 0 } ]
    \cup [ jobs : [ 1..1 -> JobInputs ], resets : { MaxResets } ]

Init ==
  /\ todo \in Workloads
  /\ nOld \in { 0, Cap - 1 }
  /\ builds = File(OldList(nOld))
  /\ history = Missing
  /\ logs = [ r \in RunIds |-> << >> ]
  /\ run = [ r \in RunIds |-> NoRun ]
  /\ pc = [ r \in RunIds |-> "new" ]
  /\ idx = [ r \in RunIds |-> 0 ]
  /\ start = [ r \in RunIds |-> 0 ]
  /\ loc = [ r \in RunIds |-> << >> ]
  /\ now = 0
  /\ rpc = "idle"
  /\ rglob = {}
  /\ nAppend = [ r \in RunIds |-> 0 ]
  /\ stats = NoResponse

\* ------------------------------------------------------- list helpers
\* [x for x in curr if x.get("id") != id]
Without(curr, id) == SelectSeq(curr, LAMBDA x : x.id # id)

\* curr[:n]
Take(curr, n) == IF Len(curr) <= n THEN curr ELSE SubSeq(curr, 1, n)

\* mutant: the slice curr[:100] is missing
Upsert_NoCap(curr, r) == << r >> \o Without(curr, r.id)

\* mutant: curr.append(run), the run goes to the back of the list
Upsert_AtBack(curr, r) == Take(Without(curr, r.id) \o << r >>, Cap)

\* _save_current_snapshot up to the list it hands to _save_json
Upsert(curr, r) == Take(<< r >> \o Without(curr, r.id), Cap)

\* mutant: the entry is appended twice
Appended_Twice(hist, entry) == Append(Append(hist, entry), entry)

\* _append_history up to the list it hands to _save_json
Appended(hist, entry) == Append(hist, entry)

\* mutant: only the "Run started" line creates the log file, a later line
\* is not written when the file has been removed
_write_log_NoCreate(id, line) ==
  logs' = [ logs EXCEPT ![id] = IF @ = << >> /\ line[1] # "run_started"
                                  THEN @ ELSE Append(@, line) ]

\* _write_log: one more line at the end of the run's log file
_write_log(id, line) == logs' = [ logs EXCEPT ![id] = Append(@, line) ]

Line(kind, step) == << kind, step >>

\* what each group of actions leaves alone
ResetVars == << rpc, rglob >>
Requests == << todo, nOld >>
TaskLocal == << idx, start >>

\* ------------------------------------------------------------- api_run
\* POST /api/run, lines 184-199 up to the load of _save_current_snapshot:
\* the run dict is built and builds.json is read.
api_run(r) ==
  /\ pc[r] = "new"
  /\ \A q \in RunIds : q < r => pc[q] # "new"
  /\ todo.jobs # << >>
  /\ todo' = [ todo EXCEPT !.jobs = Tail(@) ]
  /\ LET new == NewRun(r, JobOf(Head(todo.jobs)), now) IN
       /\ run' = [ run EXCEPT ![r] = new ]
       /\ loc' = [ loc EXCEPT ![r] = Upsert(_load_json(builds, << >>), new) ]
  /\ pc' = [ pc EXCEPT ![r] = "api_open" ]
  /\ UNCHANGED << builds, history, logs, now, nAppend, nOld, stats >>
  /\ UNCHANGED ResetVars /\ UNCHANGED TaskLocal

\* open(DATA_CURRENT, "w") of a _save_current_snapshot
SnapshotOpen(r, at, next) ==
  /\ pc[r] = at
  /\ builds' = SaveOpen(builds)
  /\ pc' = [ pc EXCEPT ![r] = next ]
  /\ UNCHANGED << history, logs, run, loc, now, nAppend, stats >>
  /\ UNCHANGED ResetVars /\ UNCHANGED TaskLocal /\ UNCHANGED Requests

\* json.dump of a _save_current_snapshot
SnapshotWrite(r, at, next) ==
  /\ pc[r] = at
  /\ builds' \in SaveWrite(builds, loc[r])
  /\ loc' = [ loc EXCEPT ![r] = << >> ]
  /\ pc' = [ pc EXCEPT ![r] = next ]
  /\ UNCHANGED << history, logs, run, now, nAppend, stats >>
  /\ UNCHANGED ResetVars /\ UNCHANGED TaskLocal /\ UNCHANGED Requests

api_run_open(r) == SnapshotOpen(r, "api_open", "api_write")

\* the save of api_run's snapshot, then threading.Thread(...).start()
api_run_write(r) == SnapshotWrite(r, "api_write", "log_start")

\* --------------------------------------------------- _simulate_pipeline
\* lines 116-120: start = time.time(), log "Run started"
LogRunStarted(r) ==
  /\ pc[r] = "log_start"
  /\ start' = [ start EXCEPT ![r] = now ]
  /\ _write_log(r, Line("run_started", run[r].job))
  /\ idx' = [ idx EXCEPT ![r] = 1 ]
  /\ pc' = [ pc EXCEPT ![r] = IF run[r].steps # << >> THEN "step_load" ELSE "succ" ]
  /\ UNCHANGED << builds, history, run, loc, now, nAppend, stats >>
  /\ UNCHANGED ResetVars /\ UNCHANGED Requests

\* mutant: _load_json without its try/except, the thread dies on a file
\* json.load cannot parse
StepLoad_Raises(r) ==
  /\ pc[r] = "step_load"
  /\ builds.st \in { "valid", "missing" }
  /\ LET upd == [ run[r] EXCEPT !.current_step = run[r].steps[idx[r]] ] IN
       /\ run' = [ run EXCEPT ![r] = upd ]
       /\ loc' = [ loc EXCEPT ![r] = Upsert(_load_json(builds, << >>), upd) ]
  /\ pc' = [ pc EXCEPT ![r] = "step_open" ]
  /\ UNCHANGED << builds, history, logs, now, nAppend, stats >>
  /\ UNCHANGED ResetVars /\ UNCHANGED TaskLocal /\ UNCHANGED Requests

\* lines 123-124: current_step = step, load of _save_current_snapshot
StepLoad(r) ==
  /\ pc[r] = "step_load"
  /\ LET upd == [ run[r] EXCEPT !.current_step = run[r].steps[idx[r]] ] IN
       /\ run' = [ run EXCEPT ![r] = upd ]
       /\ loc' = [ loc EXCEPT ![r] = Upsert(_load_json(builds, << >>), upd) ]
  /\ pc' = [ pc EXCEPT ![r] = "step_open" ]
  /\ UNCHANGED << builds, history, logs, now, nAppend, stats >>
  /\ UNCHANGED ResetVars /\ UNCHANGED TaskLocal /\ UNCHANGED Requests

StepOpen(r) == SnapshotOpen(r, "step_open", "step_write")

StepWrite(r) == SnapshotWrite(r, "step_write", "log_step")

\* line 126: log "Step started"
LogStepStarted(r) ==
  /\ pc[r] = "log_step"
  /\ _write_log(r, Line("step_started", run[r].steps[idx[r]]))
  /\ pc' = [ pc EXCEPT ![r] = "sleep" ]
  /\ UNCHANGED << builds, history, run, loc, now, nAppend, stats >>
  /\ UNCHANGED ResetVars /\ UNCHANGED TaskLocal /\ UNCHANGED Requests

\* line 128: time.sleep; the clock of second resolution moves on or not
Sleep(r) ==
  /\ pc[r] = "sleep"
  /\ \E d \in 0..1 : now' = IF now + d <= MaxClock THEN now + d ELSE now
  /\ pc' = [ pc EXCEPT ![r] = "log_out" ]
  /\ UNCHANGED << builds, history, logs, run, loc, nAppend, stats >>
  /\ UNCHANGED ResetVars /\ UNCHANGED TaskLocal /\ UNCHANGED Requests

\* line 130: log the step's simulated output
LogOutput(r) ==
  /\ pc[r] = "log_out"
  /\ _write_log(r, Line("output", run[r].steps[idx[r]]))
  /\ pc' = [ pc EXCEPT ![r] = "roll" ]
  /\ UNCHANGED << builds, history, run, loc, now, nAppend, stats >>
  /\ UNCHANGED ResetVars /\ UNCHANGED TaskLocal /\ UNCHANGED Requests

\* mutant: duration_s is not set on failure
StepFailed_NoDuration(r) ==
  /\ pc[r] = "roll"
  /\ run' = [ run EXCEPT ![r] = [ @ EXCEPT !.status = "failed",
                                           !.finished_at = now ] ]
  /\ _write_log(r, Line("FAILED", run[r].steps[idx[r]]))
  /\ pc' = [ pc EXCEPT ![r] = "fail_fin" ]
  /\ UNCHANGED << builds, history, loc, now, nAppend, stats >>
  /\ UNCHANGED ResetVars /\ UNCHANGED TaskLocal /\ UNCHANGED Requests

\* lines 133-137: the draw fails the step; status, finished_at, duration_s
\* are set and "FAILED" is logged
StepFailed(r) ==
  /\ pc[r] = "roll"
  /\ run' = [ run EXCEPT ![r] = [ @ EXCEPT !.status = "failed",
                                           !.finished_at = now,
                                           !.duration_s = now - start[r] ] ]
  /\ _write_log(r, Line("FAILED", run[r].steps[idx[r]]))
  /\ pc' = [ pc EXCEPT ![r] = "fail_fin" ]
  /\ UNCHANGED << builds, history, loc, now, nAppend, stats >>
  /\ UNCHANGED ResetVars /\ UNCHANGED TaskLocal /\ UNCHANGED Requests

\* lines 143-144: the draw passes the step; "OK" is logged and the loop
\* goes on to the next step or ends
StepOk(r) ==
  /\ pc[r] = "roll"
  /\ _write_log(r, Line("OK", run[r].steps[idx[r]]))
  /\ idx' = [ idx EXCEPT ![r] = @ + 1 ]
  /\ pc' = [ pc EXCEPT ![r] = IF idx[r] < Len(run[r].steps) THEN "step_load"
                                                             ELSE "succ" ]
  /\ UNCHANGED << builds, history, run, loc, now, start, nAppend, stats >>
  /\ UNCHANGED ResetVars /\ UNCHANGED Requests

\* mutant: the run-finished line of a failed run is written last, after
\* the snapshot and the history append; here it is not written before them
LogFinishedFailed_Late(r) ==
  /\ pc[r] = "fail_fin"
  /\ pc' = [ pc EXCEPT ![r] = "fin_load" ]
  /\ UNCHANGED << builds, history, logs, run, loc, now, nAppend, stats >>
  /\ UNCHANGED ResetVars /\ UNCHANGED TaskLocal /\ UNCHANGED Requests

\* line 138: log "finished with status=failed"
LogFinishedFailed(r) ==
  /\ pc[r] = "fail_fin"
  /\ _write_log(r, Line("finished", "failed"))
  /\ pc' = [ pc EXCEPT ![r] = "fin_load" ]
  /\ UNCHANGED << builds, history, run, loc, now, nAppend, stats >>
  /\ UNCHANGED ResetVars /\ UNCHANGED TaskLocal /\ UNCHANGED Requests

\* lines 146-150: after the last step status, finished_at, duration_s and
\* current_step are set and "finished with status=success" is logged
Succeed(r) ==
  /\ pc[r] = "succ"
  /\ run' = [ run EXCEPT ![r] = [ @ EXCEPT !.status = "success",
                                           !.finished_at = now,
                                           !.duration_s = now - start[r],
                                           !.current_step = NoStep ] ]
  /\ _write_log(r, Line("finished", "success"))
  /\ pc' = [ pc EXCEPT ![r] = "fin_load" ]
  /\ UNCHANGED << builds, history, loc, now, nAppend, stats >>
  /\ UNCHANGED ResetVars /\ UNCHANGED TaskLocal /\ UNCHANGED Requests

\* mutant: current_step is not cleared before the last snapshot
FinLoad_KeepsStep(r) ==
  /\ pc[r] = "fin_load"
  /\ loc' = [ loc EXCEPT ![r] = Upsert(_load_json(builds, << >>), run[r]) ]
  /\ pc' = [ pc EXCEPT ![r] = "fin_open" ]
  /\ UNCHANGED << builds, history, logs, run, now, nAppend, stats >>
  /\ UNCHANGED ResetVars /\ UNCHANGED TaskLocal /\ UNCHANGED Requests

\* lines 139-140 and 152: current_step = None, load of the last
\* _save_current_snapshot
FinLoad(r) ==
  /\ pc[r] = "fin_load"
  /\ LET upd == [ run[r] EXCEPT !.current_step = NoStep ] IN
       /\ run' = [ run EXCEPT ![r] = upd ]
       /\ loc' = [ loc EXCEPT ![r] = Upsert(_load_json(builds, << >>), upd) ]
  /\ pc' = [ pc EXCEPT ![r] = "fin_open" ]
  /\ UNCHANGED << builds, history, logs, now, nAppend, stats >>
  /\ UNCHANGED ResetVars /\ UNCHANGED TaskLocal /\ UNCHANGED Requests

FinOpen(r) == SnapshotOpen(r, "fin_open", "fin_write")

FinWrite(r) == SnapshotWrite(r, "fin_write", "hist_load")

\* _append_history, lines 81-82: load history.json, append the run
HistLoad(r) ==
  /\ pc[r] = "hist_load"
  /\ loc' = [ loc EXCEPT ![r] = Appended(_load_json(history, << >>), run[r]) ]
  /\ pc' = [ pc EXCEPT ![r] = "hist_open" ]
  /\ UNCHANGED << builds, history, logs, run, now, nAppend, stats >>
  /\ UNCHANGED ResetVars /\ UNCHANGED TaskLocal /\ UNCHANGED Requests

\* _append_history, line 83: open(DATA_HISTORY, "w")
HistOpen(r) ==
  /\ pc[r] = "hist_open"
  /\ history' = SaveOpen(history)
  /\ pc' = [ pc EXCEPT ![r] = "hist_write" ]
  /\ UNCHANGED << builds, logs, run, loc, now, nAppend, stats >>
  /\ UNCHANGED ResetVars /\ UNCHANGED TaskLocal /\ UNCHANGED Requests

\* mutant: the return of line 142 is missing, a failed run goes on with
\* its next step
HistWrite_NoReturn(r) ==
  /\ pc[r] = "hist_write"
  /\ history' \in SaveWrite(history, loc[r])
  /\ loc' = [ loc EXCEPT ![r] = << >> ]
  /\ nAppend' = [ nAppend EXCEPT ![r] = @ + 1 ]
  /\ IF run[r].status = "failed" /\ idx[r] < Len(run[r].steps)
       THEN /\ pc' = [ pc EXCEPT ![r] = "step_load" ]
            /\ idx' = [ idx EXCEPT ![r] = @ + 1 ]
       ELSE /\ pc' = [ pc EXCEPT ![r] = "done" ]
            /\ idx' = idx
  /\ UNCHANGED << builds, logs, run, now, start, stats >>
  /\ UNCHANGED ResetVars /\ UNCHANGED Requests

\* _append_history, line 83: json.dump; the thread ends
HistWrite(r) ==
  /\ pc[r] = "hist_write"
  /\ history' \in SaveWrite(history, loc[r])
  /\ loc' = [ loc EXCEPT ![r] = << >> ]
  /\ nAppend' = [ nAppend EXCEPT ![r] = @ + 1 ]
  /\ pc' = [ pc EXCEPT ![r] = "done" ]
  /\ UNCHANGED << builds, logs, run, now, stats >>
  /\ UNCHANGED ResetVars /\ UNCHANGED TaskLocal /\ UNCHANGED Requests

\* ------------------------------------------------------------ api_reset
RunVars == << run, pc, idx, start, loc, now, nAppend, nOld, stats >>

\* line 263, open(DATA_CURRENT, "w")
ResetBuildsOpen ==
  /\ rpc \in { "idle", "returned" }
  /\ todo.resets > 0
  /\ todo' = [ todo EXCEPT !.resets = @ - 1 ]
  /\ builds' = SaveOpen(builds)
  /\ rpc' = "builds_write"
  /\ UNCHANGED << history, logs, rglob >> /\ UNCHANGED RunVars

\* line 263, json.dump([])
ResetBuildsWrite ==
  /\ rpc = "builds_write"
  /\ builds' \in SaveWrite(builds, << >>)
  /\ rpc' = "hist_open"
  /\ UNCHANGED << history, logs, rglob, todo >> /\ UNCHANGED RunVars

\* line 264, open(DATA_HISTORY, "w")
ResetHistOpen ==
  /\ rpc = "hist_open"
  /\ history' = SaveOpen(history)
  /\ rpc' = "hist_write"
  /\ UNCHANGED << builds, logs, rglob, todo >> /\ UNCHANGED RunVars

\* line 264, json.dump([])
ResetHistWrite ==
  /\ rpc = "hist_write"
  /\ history' \in SaveWrite(history, << >>)
  /\ rpc' = "glob"
  /\ UNCHANGED << builds, logs, rglob, todo >> /\ UNCHANGED RunVars

\* line 267, glob.glob: the log files that exist now
ResetGlob ==
  /\ rpc = "glob"
  /\ rglob' = { r \in RunIds : logs[r] # << >> }
  /\ rpc' = "remove"
  /\ UNCHANGED << builds, history, logs, todo >> /\ UNCHANGED RunVars

\* lines 268-271, os.remove of one of the files found
ResetRemove ==
  /\ rpc = "remove"
  /\ \E r \in rglob :
       /\ logs' = [ logs EXCEPT ![r] = << >> ]
       /\ rglob' = rglob \ { r }
  /\ UNCHANGED << builds, history, rpc, todo >> /\ UNCHANGED RunVars

\* line 273, the response
ResetReturn ==
  /\ rpc = "remove"
  /\ rglob = {}
  /\ rpc' = "returned"
  /\ UNCHANGED << builds, history, logs, rglob, todo >> /\ UNCHANGED RunVars

api_reset ==
  \/ ResetBuildsOpen
  \/ ResetBuildsWrite
  \/ ResetHistOpen
  \/ ResetHistWrite
  \/ ResetGlob
  \/ ResetRemove
  \/ ResetReturn

\* ------------------------------------------------------- specification
\* the steps of the request handler of run r
Handler(r) ==
  \/ api_run(r)
  \/ api_run_open(r)
  \/ api_run_write(r)

\* the steps of the thread of run r
_simulate_pipeline(r) ==
  \/ LogRunStarted(r)
  \/ StepLoad(r)
  \/ StepOpen(r)
  \/ StepWrite(r)
  \/ LogStepStarted(r)
  \/ Sleep(r)
  \/ LogOutput(r)
  \/ StepFailed(r)
  \/ StepOk(r)
  \/ LogFinishedFailed(r)
  \/ Succeed(r)
  \/ FinLoad(r)
  \/ FinOpen(r)
  \/ FinWrite(r)
  \/ HistLoad(r)
  \/ HistOpen(r)
  \/ HistWrite(r)

Next ==
  \/ \E r \in RunIds : Handler(r)
  \/ \E r \in RunIds : _simulate_pipeline(r)
  \/ api_reset

Spec == Init /\ [][Next]_vars

\* ------------------------------------------------------------- floats
\* Python floats are IEEE binary64.  The values _calc_stats forms lie in
\* [2^-6, 2^22) and so are multiples of 2^-58; a float is held here as the
\* bits of a fixed-point number, IntBits before and FracBits after the point,
\* most significant first, and every operation rounds its exact result to
\* Mantissa significant bits, ties to even.
IntBits == 22
FracBits == 60
Mantissa == 53
Width == IntBits + FracBits

\* float(n) of an integer 0 <= n < 2^IntBits
FromInt(n) ==
  [ i \in 1..Width |-> IF i <= IntBits THEN (n \div 2^(IntBits - i)) % 2 ELSE 0 ]
    \o << >>

RECURSIVE AddFrom(_, _, _, _, _)
\* the bits i..1 of a + b in front of acc, carry coming from bit i + 1
\* (the tests on carry and acc never hold: they make TLC evaluate both
\* before the next call, and so for the recursions below)
AddFrom(a, b, i, carry, acc) ==
  IF i = 0 \/ carry > 1 \/ Len(acc) > Width THEN acc
  ELSE AddFrom(a, b, i - 1, (a[i] + b[i] + carry) \div 2,
               << (a[i] + b[i] + carry) % 2 >> \o acc)

\* exact sum of two bit vectors
BitAdd(a, b) == IF Len(a) = Len(b) THEN AddFrom(a, b, Width, 0, << >>) ELSE << >>

\* round the exact value q (+ something below the last bit when sticky)
\* to Mantissa significant bits, ties to even
Round(q, sticky) ==
  LET ones == { i \in 1..Width : q[i] = 1 }
      p == CHOOSE i \in ones : \A j \in ones : i <= j
      last == p + Mantissa - 1
      rest == sticky \/ \E i \in (last + 2)..Width : q[i] = 1
      kept == [ i \in 1..Width |-> IF i <= last THEN q[i] ELSE 0 ] \o << >>
      ulp == [ i \in 1..Width |-> IF i = last THEN 1 ELSE 0 ] \o << >>
  IN  IF ones = {} \/ last >= Width THEN q
      ELSE IF q[last + 1] = 1 /\ (rest \/ q[last] = 1) THEN BitAdd(kept, ulp)
      ELSE kept

\* x + y of two floats
FloatAdd(x, y) == Round(BitAdd(x, y), FALSE)

RECURSIVE DivFrom(_, _, _, _, _)
\* long division of x by d from bit i on: the quotient bits after acc and
\* whether a remainder is left
DivFrom(x, d, i, rem, acc) ==
  IF i > Width \/ rem >= d \/ Len(acc) > Width THEN << acc, rem # 0 >>
  ELSE DivFrom(x, d, i + 1, (2 * rem + x[i]) % d,
               Append(acc, (2 * rem + x[i]) \div d))

\* x / d of a float by a small positive integer
FloatDiv(x, d) ==
  LET qr == DivFrom(x, d, 1, 0, << >>)
  IN  IF Len(x) = Width THEN Round(qr[1], qr[2]) ELSE << >>

RECURSIVE IntFrom(_, _, _)
IntFrom(x, i, acc) ==
  IF i > IntBits \/ acc < 0 THEN acc ELSE IntFrom(x, i + 1, 2 * acc + x[i])

\* int(x) of a float x >= 0
FloatToInt(x) == IntFrom(x, 1, 0)

RECURSIVE FloatSum(_)
\* sum(xs) of a non-empty list of floats, added left to right
FloatSum(xs) ==
  IF Len(xs) = 1 THEN xs[1]
  ELSE FloatAdd(FloatSum(SubSeq(xs, 1, Len(xs) - 1)), xs[Len(xs)])

\* ---------------------------------------------------------- _calc_stats
Day == 86400            \* seconds of a date
Window == 7 * Day       \* timedelta(days=7)

RECURSIVE SumSeq(_)
SumSeq(xs) == IF xs = << >> THEN 0 ELSE Head(xs) + SumSeq(Tail(xs))

\* mutant: the rate is cut to one decimal, int(x * 10) / 10, not rounded
Rate_Truncated(k, total) == IF total = 0 THEN 0 ELSE (1000 * k) \div total

\* round(k / total * 100, 1) in tenths of a percent
Rate(k, total) ==
  LET fl == (1000 * k) \div total
      twice == 2 * ((1000 * k) % total)
  IN  IF total = 0 THEN 0
      ELSE IF twice > total \/ (twice = total /\ fl % 2 = 1) THEN fl + 1
      ELSE fl

\* lines 236-242: the successes of the job of h that finished after it
LaterSuccesses(last7, h) ==
  { i \in 1..Len(last7) :
      /\ last7[i].job = h.job
      /\ last7[i].finished_at # NoTime
      /\ last7[i].finished_at > h.finished_at
      /\ last7[i].status = "success" }

\* line 244: the finish of the earliest of them
FirstSuccess(last7, h) ==
  LET later == { last7[i].finished_at : i \in LaterSuccesses(last7, h) }
  IN  CHOOSE t \in later : \A u \in later : t <= u

\* lines 231-245: the recovery time in minutes, (t_succ - t_fail) / 60, of
\* every failed run of the window that has a later success, in history order
Mttrs(last7) ==
  LET failed == SelectSeq(last7, LAMBDA h :
                  h.status = "failed" /\ LaterSuccesses(last7, h) # {})
  IN  [ i \in 1..Len(failed) |->
          FloatDiv(FromInt(FirstSuccess(last7, failed[i]) - failed[i].finished_at),
                   60) ]

\* line 246
MttrMinutes(mttrs) ==
  IF mttrs = << >> THEN 0
  ELSE FloatToInt(FloatDiv(FloatSum(mttrs), Len(mttrs)))

\* _calc_stats on the list hist at time t; the rates are in tenths
_calc_stats(hist, t) ==
  LET finished == SelectSeq(hist, LAMBDA h : h.finished_at # NoTime)
      today == SelectSeq(finished, LAMBDA h : h.finished_at \div Day = t \div Day)
      last7 == SelectSeq(finished, LAMBDA h : t - h.finished_at <= Window)
      total == Len(last7)
      failures == Len(SelectSeq(last7, LAMBDA h : h.status = "failed"))
      successes == Len(SelectSeq(last7, LAMBDA h : h.status = "success"))
      withDur == SelectSeq(last7, LAMBDA h : h.duration_s \notin { NoTime, 0 })
      ds == [ i \in 1..Len(withDur) |-> withDur[i].duration_s ]
  IN  IF hist = << >> THEN NoStats
      ELSE [ deploys_today |-> Len(today),
             success_rate |-> Rate(successes, total),
             cfr |-> Rate(failures, total),
             avg_duration |-> IF ds # << >> THEN SumSeq(ds) \div Len(ds) ELSE 0,
             mttr_minutes |-> MttrMinutes(Mttrs(last7)) ]

\* GET /api/stats, the first request
api_stats ==
  /\ stats = NoResponse
  /\ stats' = _calc_stats(_load_json(history, << >>), now)
  /\ UNCHANGED << builds, history, logs, run, pc, idx, start, loc, now, rpc,
                  rglob, todo, nAppend, nOld >>

\* A server that is idle at time StatsNow on a history.json of up to
\* MaxHist finished runs: both outcomes of app-ci at finish times just
\* outside the window (0), on its edge (100) and inside it, and both of
\* api-ci at two of them.
StatsNow == Window + 100
SampleTimes == { 0, 100, 269, 362, 389, 400 }
SampleRun(job, status, t) ==
  [ id |-> 0, job |-> job, status |-> status, steps |-> StepsFor(job),
    current_step |-> NoStep,
    started_at |-> IF status = "failed" THEN t ELSE t - 2, finished_at |-> t,
    duration_s |-> IF status = "failed" THEN 0 ELSE 2 ]
OtherTimes == { 389, 400 }
SampleRuns ==
  { SampleRun("app-ci", status, t) :
      status \in { "success", "failed" }, t \in SampleTimes }
    \cup { SampleRun("api-ci", status, t) :
             status \in { "success", "failed" }, t \in OtherTimes }
SampleHistories == UNION { [ 1..n -> SampleRuns ] : n \in 0..MaxHist }

StatsInit ==
  /\ history \in { File(h) : h \in SampleHistories }
                  \cup { Missing, Truncated, Garbage }
  /\ now = StatsNow
  /\ builds = File(<< >>)
  /\ todo = [ jobs |-> << >>, resets |-> 0 ]
  /\ nOld = 0
  /\ logs = [ r \in RunIds |-> << >> ]
  /\ run = [ r \in RunIds |-> NoRun ]
  /\ pc = [ r \in RunIds |-> "new" ]
  /\ idx = [ r \in RunIds |-> 0 ]
  /\ start = [ r \in RunIds |-> 0 ]
  /\ loc = [ r \in RunIds |-> << >> ]
  /\ rpc = "idle"
  /\ rglob = {}
  /\ nAppend = [ r \in RunIds |-> 0 ]
  /\ stats = NoResponse

StatsSpec == StatsInit /\ [][api_stats]_vars

\* ------------------------------------------------------- query surface
\* api_builds: list_current_runs()
api_builds == _load_json(builds, << >>)

\* api_history: list_history()
api_history == _load_json(history, << >>)

\* api_logs: get_log(id), the empty text when the file does not exist
api_logs(id) == logs[id]

\* ------------------------------------------------------------ vocabulary
Terminal(s) == s \in { "success", "failed" }
Ids(list) == { list[i].id : i \in 1..Len(list) }
Count(list, id) == Cardinality({ i \in 1..Len(list) : list[i].id = id })
Entries(list, id) == { list[i] : i \in { j \in 1..Len(list) : list[j].id = id } }
Started == { r \in RunIds : pc[r] # "new" }
\* the first upsert of run r, the one of api_run, has been saved
Upserted(r) == pc[r] \notin { "new", "api_open", "api_write" }
NoReset == rpc = "idle"

\* ================================================================ claims

\* C1: with fewer than Cap runs in total and no reset, once two runs have
\* each completed an upsert and builds.json holds a document, the current-runs
\* list has an entry for both of them: no writer drops another run's entry.
C1_NoEntryDropped ==
  (NoReset /\ nOld + Cardinality(Started) < Cap /\ builds.st = "valid")
    => \A r, q \in RunIds :
         (r # q /\ Upserted(r) /\ Upserted(q))
           => { r, q } \subseteq Ids(api_builds)

\* C2: with no reset issued, once the thread of a run has finished and
\* history.json holds a document, history has exactly one entry of the run.
C2_ExactlyOneHistoryEntry ==
  (NoReset /\ history.st = "valid")
    => \A r \in RunIds : pc[r] = "done" => Count(api_history, r) = 1

\* C3: status only ever changes from running to success or failed, a
\* finished thread has a terminal status, and every snapshot in the
\* current-runs list and in history has finished_at and duration_s set if
\* and only if its status is success or failed.
SetIffTerminal(e) ==
  /\ (e.finished_at # NoTime) <=> Terminal(e.status)
  /\ (e.duration_s # NoTime) <=> Terminal(e.status)

C3_Snapshots ==
  /\ \A i \in 1..Len(api_builds) : SetIffTerminal(api_builds[i])
  /\ \A i \in 1..Len(api_history) : SetIffTerminal(api_history[i])
  /\ \A r \in RunIds : pc[r] = "done" => Terminal(run[r].status)

C3_Step ==
  \A r \in RunIds :
    run'[r].status # run[r].status
      => run[r].status = "running" /\ Terminal(run'[r].status)

C3_StatusOnce == [](C3_Snapshots) /\ [][C3_Step]_vars

C3_Witness ==
  \E r \in RunIds :
    /\ pc[r] = "done"
    /\ \E e \in Entries(api_builds, r) : Terminal(e.status) /\ e.duration_s # NoTime
    /\ \E e \in Entries(api_history, r) : e.status = "failed"

\* C4: once a run has failed at step k, nothing of the steps after k
\* happens: the loop stays at k, the only line still logged is the
\* run-finished line, and no line of a later step is in the log and no
\* snapshot with current_step a later step is in the stores or about to be
\* saved.
Later(r) == { run[r].steps[i] : i \in (idx[r] + 1)..Len(run[r].steps) }

C4_Quiet ==
  \A r \in RunIds :
    run[r].status = "failed" =>
      /\ \A i \in 1..Len(logs[r]) : logs[r][i][2] \notin Later(r)
      /\ \A e \in Entries(api_builds, r) \cup Entries(api_history, r)
                    \cup Entries(loc[r], r) :
           e.current_step \notin Later(r)
      /\ run[r].current_step \notin Later(r)

C4_Step ==
  \A r \in RunIds :
    run[r].status = "failed" =>
      /\ idx'[r] = idx[r]
      /\ (logs'[r] # logs[r] /\ logs'[r] # << >>)
           => logs'[r] = Append(logs[r], Line("finished", "failed"))

C4_StopsAtFailure == [](C4_Quiet) /\ [][C4_Step]_vars

C4_Witness ==
  \E r \in RunIds :
    /\ pc[r] = "done"
    /\ run[r].status = "failed"
    /\ Later(r) # {}
    /\ Line("FAILED", run[r].steps[idx[r]]) \in { logs[r][i] : i \in 1..Len(logs[r]) }

\* C5: the current-runs list never has more than Cap entries and never
\* two entries of one run id.
C5_CapAndUnique ==
  /\ Len(api_builds) <= Cap
  /\ Cardinality(Ids(api_builds)) = Len(api_builds)

\* the list is full, an old entry has been evicted for two new runs
C5_Witness ==
  /\ Len(api_builds) = Cap
  /\ nOld = Cap - 1
  /\ { 1, 2 } \subseteq Ids(api_builds)
  /\ -nOld \notin Ids(api_builds)

\* C6: every started run eventually has status success or failed, whatever
\* the other threads and a reset do meanwhile, provided the handler and the
\* thread of the run keep being scheduled.
Scheduled(r) == WF_vars(api_run_open(r) \/ api_run_write(r) \/ _simulate_pipeline(r))

\* a server started on an empty builds.json
LiveInit == Init /\ nOld = 0

LiveSpec == LiveInit /\ [][Next]_vars /\ \A r \in RunIds : Scheduled(r)

C6_RunsTerminate ==
  \A r \in RunIds : (pc[r] # "new") ~> Terminal(run[r].status)

\* a run whose log a reset removed while it was running has finished
C6_Witness ==
  \E r \in RunIds :
    /\ rpc = "returned"
    /\ pc[r] = "done"
    /\ Terminal(run[r].status)
    /\ logs[r] # << >>
    /\ Head(logs[r])[1] # "run_started"

\* C7: once reset has returned, list_current_runs() and list_history() are
\* empty and get_log(id) is empty for every run id.
C7_EmptyAfterReset ==
  rpc = "returned" =>
    /\ api_builds = << >>
    /\ api_history = << >>
    /\ \A r \in RunIds : api_logs(r) = << >>

\* C8: every entry of history is a terminal snapshot: status success or
\* failed, finished_at and duration_s set, current_step empty.
C8_HistoryTerminal ==
  \A i \in 1..Len(api_history) :
    /\ Terminal(api_history[i].status)
    /\ api_history[i].finished_at # NoTime
    /\ api_history[i].duration_s # NoTime
    /\ api_history[i].current_step = NoStep

C8_Witness ==
  \E i \in 1..Len(api_history) :
    /\ api_history[i].status = "failed"
    /\ api_history[i].id \in RunIds

\* C9: no run id is in two entries of history, a run thread saves history
\* at most once, and only with a terminal status.
C9_AtMostOnce ==
  /\ \A i, j \in 1..Len(api_history) :
       api_history[i].id = api_history[j].id => i = j
  /\ \A r \in RunIds :
       /\ nAppend[r] <= 1
       /\ nAppend[r] = 1 => Terminal(run[r].status)
       /\ pc[r] \in { "hist_load", "hist_open", "hist_write" }
            => Terminal(run[r].status)

C9_Witness ==
  /\ Len(api_history) = 2
  /\ \A r \in RunIds : nAppend[r] = 1

\* C10: mttr_minutes is the truncated mean, over the failed runs of the
\* 7-day window that have a strictly later-finishing success of the same
\* job in the window, of the minutes from the failure's finish to the
\* earliest such success's finish, and 0 when there is no such failed run.
InWindow(h) == h.finished_at # NoTime /\ now - h.finished_at <= Window

Recoverers(hist, i) ==
  { j \in 1..Len(hist) :
      /\ InWindow(hist[j])
      /\ hist[j].job = hist[i].job
      /\ hist[j].status = "success"
      /\ hist[j].finished_at > hist[i].finished_at }

Recovered(hist) ==
  { i \in 1..Len(hist) :
      InWindow(hist[i]) /\ hist[i].status = "failed" /\ Recoverers(hist, i) # {} }

RecoverySeconds(hist, i) ==
  LET ends == { hist[j].finished_at : j \in Recoverers(hist, i) }
  IN  (CHOOSE t \in ends : \A u \in ends : t <= u) - hist[i].finished_at

RECURSIVE TotalRecovery(_, _)
TotalRecovery(hist, is) ==
  IF is = {} THEN 0
  ELSE LET i == CHOOSE k \in is : TRUE
       IN  RecoverySeconds(hist, i) + TotalRecovery(hist, is \ { i })

TruncatedMeanMinutes(hist) ==
  IF Recovered(hist) = {} THEN 0
  ELSE TotalRecovery(hist, Recovered(hist)) \div (60 * Cardinality(Recovered(hist)))

C10_MttrIsTruncatedMean ==
  stats # NoResponse => stats.mttr_minutes = TruncatedMeanMinutes(api_history)

\* C11: avg_duration_s is the integer mean of duration_s over all the
\* entries of the 7-day window that have a duration_s, those with
\* duration_s = 0 included, and 0 only when no entry of the window has one.
Durations(hist) ==
  { i \in 1..Len(hist) : InWindow(hist[i]) /\ hist[i].duration_s # NoTime }

RECURSIVE TotalDuration(_, _)
TotalDuration(hist, is) ==
  IF is = {} THEN 0
  ELSE LET i == CHOOSE k \in is : TRUE
       IN  hist[i].duration_s + TotalDuration(hist, is \ { i })

MeanDuration(hist) ==
  IF Durations(hist) = {} THEN 0
  ELSE TotalDuration(hist, Durations(hist)) \div Cardinality(Durations(hist))

C11_AvgDurationCountsZero ==
  stats # NoResponse => stats.avg_duration = MeanDuration(api_history)

\* C12: success_rate and change_failure_rate are successes / window_total
\* x 100 and failures / window_total x 100 to one decimal, the window being
\* the history entries finished within the last 7 days; both are 0 when the
\* window is empty, also on a non-empty history; 3 successes and 1 failure
\* in the window give 75.0 and 25.0.
InWindowWith(hist, status) ==
  { i \in 1..Len(hist) : InWindow(hist[i]) /\ hist[i].status = status }

WindowTotal(hist) == Cardinality({ i \in 1..Len(hist) : InWindow(hist[i]) })

\* rate, in tenths of a percent, is a tenth nearest to 100 * k / total
NearestTenth(rate, k, total) ==
  LET diff == rate * total - 1000 * k
  IN  2 * (IF diff < 0 THEN -diff ELSE diff) <= total

C12_Rates ==
  stats # NoResponse =>
    LET total == WindowTotal(api_history)
        successes == Cardinality(InWindowWith(api_history, "success"))
        failures == Cardinality(InWindowWith(api_history, "failed"))
    IN  /\ total = 0 => stats.success_rate = 0 /\ stats.cfr = 0
        /\ total > 0 => /\ NearestTenth(stats.success_rate, successes, total)
                        /\ NearestTenth(stats.cfr, failures, total)
        /\ (successes = 3 /\ failures = 1)
             => stats.success_rate = 750 /\ stats.cfr = 250

C12_Witness ==
  /\ stats # NoResponse
  /\ Cardinality(InWindowWith(api_history, "success")) = 3
  /\ Cardinality(InWindowWith(api_history, "failed")) = 1
  /\ stats.success_rate = 750
  /\ stats.cfr = 250

\* C14: when history is empty, also when history.json is missing, empty or
\* unparsable, get_stats answers with deploys_today, success_rate,
\* change_failure_rate, avg_duration_s and mttr_minutes all 0.
C14_EmptyHistoryAllZero ==
  (stats # NoResponse /\ api_history = << >>) =>
    /\ stats.deploys_today = 0
    /\ stats.success_rate = 0
    /\ stats.cfr = 0
    /\ stats.avg_duration = 0
    /\ stats.mttr_minutes = 0

\* get_stats has answered on a history.json that json.load cannot parse
C14_Witness ==
  /\ history.st \in { "garbage", "empty" }
  /\ stats # NoResponse
  /\ stats.deploys_today = 0

\* C13: start_run with a job name that is not in the catalog does not fail:
\* it makes a run with status running whose steps are checkout, unit-tests,
\* deploy-staging, the handler saves it and answers with its id, and the
\* thread then executes exactly those steps in that order.
UnknownJob(r) == pc[r] # "new" /\ run[r].job \notin { "app-ci", "api-ci" }

\* the steps whose "started" line is in the log, in log order
StepsStarted(r) ==
  LET lines == SelectSeq(logs[r], LAMBDA l : l[1] = "step_started")
  IN  [ i \in 1..Len(lines) |-> lines[i][2] ]

C13_Created ==
  \A r \in RunIds :
    UnknownJob(r) =>
      /\ run[r].id = r
      /\ run[r].steps = << "checkout", "unit-tests", "deploy-staging" >>
      /\ pc[r] \in { "api_open", "api_write", "log_start" }
           => /\ run[r].status = "running"
              /\ run[r].current_step = "checkout"
      /\ pc[r] = "api_write" => \E e \in Entries(loc[r], r) : e = run[r]
      /\ idx[r] \in 0..4
      /\ NoReset =>
           /\ StepsStarted(r) = SubSeq(run[r].steps, 1, Len(StepsStarted(r)))
           /\ run[r].status = "success" => Len(StepsStarted(r)) = 3

\* the loop goes from each step to the next one, never back and never over one
C13_Step ==
  \A r \in RunIds :
    (UnknownJob(r) /\ idx'[r] # idx[r]) => idx'[r] = idx[r] + 1

C13_UnknownJobFallsBack == [](C13_Created) /\ [][C13_Step]_vars

C13_Witness ==
  \E r \in RunIds :
    /\ run[r].job = "web-ci"
    /\ pc[r] = "done"
    /\ run[r].status = "success"
    /\ StepsStarted(r) = << "checkout", "unit-tests", "deploy-staging" >>

\* C15: within one run the steps execute strictly in the order of its steps
\* list: a snapshot with current_step = step N+1 and the "started" line of
\* step N+1 are written only after the output line and the OK line of step N
\* are in the run's log, and the run's log is always a prefix of: run
\* started, then started, output, OK of each step in order, ending with
\* FAILED and run finished (failed), or with run finished (success).
RECURSIVE Passed(_, _)
\* the lines of the steps 1..k when they all pass
Passed(steps, k) ==
  IF k = 0 THEN << >>
  ELSE Passed(steps, k - 1) \o << Line("step_started", steps[k]),
                                  Line("output", steps[k]),
                                  Line("OK", steps[k]) >>

\* the complete logs a run can have
FullLogs(r) ==
  LET steps == run[r].steps
      first == << Line("run_started", run[r].job) >>
  IN  { first \o Passed(steps, k - 1)
              \o << Line("step_started", steps[k]), Line("output", steps[k]),
                    Line("FAILED", steps[k]), Line("finished", "failed") >> :
          k \in 1..Len(steps) }
        \cup { first \o Passed(steps, Len(steps)) \o << Line("finished", "success") >> }

IsPrefix(a, b) == Len(a) <= Len(b) /\ a = SubSeq(b, 1, Len(a))

LogHas(r, line) == \E i \in 1..Len(logs[r]) : logs[r][i] = line

C15_StepsInOrder ==
  \A r \in RunIds :
    /\ \E full \in FullLogs(r) : IsPrefix(logs[r], full)
    /\ \A k \in 2..Len(run[r].steps) :
         ( \/ LogHas(r, Line("step_started", run[r].steps[k]))
           \/ \E e \in Entries(api_builds, r) \cup Entries(loc[r], r) :
                e.current_step = run[r].steps[k] )
           => /\ LogHas(r, Line("output", run[r].steps[k - 1]))
              /\ LogHas(r, Line("OK", run[r].steps[k - 1]))

\* C16: while the thread of a run is in the simulated delay of step s, after
\* it has saved the snapshot for s and before the outcome of s, the entry of
\* the run in the current-runs list, when there is one, has current_step = s,
\* whatever snapshot writes of other runs interleave.
InDelay(r) == pc[r] \in { "log_step", "sleep", "log_out", "roll" }

C16_CurrentStepNotStale ==
  \A r \in RunIds :
    InDelay(r) =>
      \A e \in Entries(api_builds, r) : e.current_step = run[r].steps[idx[r]]

\* C20: the status a reader sees never goes back: once the terminal snapshot
\* of a run (status success or failed) has been saved to the current-runs
\* list, no later current-runs list, absent a reset, has an entry of the run
\* with status running, whatever load-modify-save snapshot writes of other
\* runs interleave.
TerminalSaved(r) == pc[r] \in { "hist_load", "hist_open", "hist_write", "done" }

C20_StatusNeverRegresses ==
  NoReset =>
    \A r \in RunIds :
      TerminalSaved(r) =>
        \A e \in Entries(api_builds, r) : e.status # "running"

\* C17: at the end of a run, failed or successful, the run-finished line is
\* logged first, then the terminal snapshot is saved to the current-runs
\* list, then the run is appended to history; so, absent a reset, whenever
\* history has an entry of a run, the run's log has its run-finished line and
\* its terminal snapshot has been written to the current-runs list.
FinishedLogged(r) == LogHas(r, Line("finished", run[r].status))

\* the thread of r is at or past the save of its terminal snapshot
SavingTerminal(r) == pc[r] \in { "fin_open", "fin_write" } \/ TerminalSaved(r)

C17_Order ==
  NoReset =>
    \A r \in RunIds :
      /\ SavingTerminal(r) => Terminal(run[r].status) /\ FinishedLogged(r)
      /\ (r \in Ids(api_history) \/ pc[r] \in { "hist_open", "hist_write" })
           => TerminalSaved(r) /\ FinishedLogged(r)
      /\ TerminalSaved(r) /\ builds.st = "valid" /\ r \in Ids(api_builds)
           /\ Cardinality(Started) = 1
           => \A e \in Entries(api_builds, r) : e = run[r]

\* the three events happen one after the other
C17_Step ==
  \A r \in RunIds :
    /\ (~FinishedLogged(r) /\ FinishedLogged(r)')
         => ~SavingTerminal(r) /\ r \notin Ids(api_history)
    /\ (~TerminalSaved(r) /\ TerminalSaved(r)')
         => /\ r \notin Ids(api_history)
            /\ NoReset => FinishedLogged(r)
    /\ (NoReset /\ r \notin Ids(api_history) /\ r \in Ids(api_history)')
         => TerminalSaved(r) /\ FinishedLogged(r)

C17_TerminalOrder == [](C17_Order) /\ [][C17_Step]_vars

C17_Witness ==
  /\ NoReset
  /\ \E r \in RunIds :
       /\ \E e \in Entries(api_history, r) : e.status = "success"
       /\ \E e \in Entries(api_builds, r) : e.status = "success"
       /\ LogHas(r, Line("finished", "success"))
       /\ \E q \in RunIds : Entries(api_history, q) # {} /\ run[q].status = "failed"

\* C18: one upsert_current(run) that nothing interferes with yields the
\* list: run at the front, then the previous entries without the one of the
\* same id, in their order, cut to Cap entries; so only entries at the tail
\* are evicted, and an upsert of an id that is in the list evicts none.
\* the thread of r reads builds.json and forms the list it will save
Upserts(r) ==
  /\ pc[r] \in { "new", "step_load", "fin_load" }
  /\ pc'[r] \in { "api_open", "step_open", "fin_open" }

\* the thread of r writes the list it formed
Saves(r) ==
  /\ pc[r] \in { "api_write", "step_write", "fin_write" }
  /\ pc'[r] # pc[r]

C18_Step ==
  \A r \in RunIds :
    /\ Upserts(r) =>
         LET prev == api_builds
             res == loc'[r]
             same == { i \in 1..Len(prev) : prev[i].id = r }
             rest == Len(prev) - Cardinality(same)
         IN  /\ Len(res) = IF rest + 1 <= Cap THEN rest + 1 ELSE Cap
             /\ res[1] = run'[r]
             /\ \A k \in 2..Len(res) :
                  res[k] = IF \E i \in same : i < k THEN prev[k] ELSE prev[k - 1]
             /\ \A i \in 1..Len(prev) :
                  prev[i].id \notin Ids(res)
                    => /\ i >= Cap
                       /\ \A j \in i..Len(prev) : prev[j].id \notin Ids(res)
             /\ same # {} => Ids(res) = Ids(prev)
    /\ (Saves(r) /\ builds.st = "empty") => builds' = File(loc[r])

C18_SingleUpsert == [][C18_Step]_vars

\* run 2 is put in front of a full list: the entry at the tail is evicted
C18_Witness ==
  /\ pc[2] = "api_open"
  /\ nOld = Cap - 1
  /\ Len(loc[2]) = Cap
  /\ loc[2][1] = run[2]
  /\ loc[2][2].id = 1
  /\ -nOld \notin Ids(loc[2])

\* C19: reset neither cancels nor waits for the threads of running runs: a
\* reset can return while a run is in the delay of a step with all the
\* stores empty, and the thread of that run then goes on, creates the run's
\* log again, writes the run's entry back into the current-runs list and
\* appends it to history, so that the stores are non-empty again without
\* any new start_run.
ResetDoneWhileRunning(r) ==
  /\ rpc = "returned"
  /\ todo.resets = 0
  /\ pc[r] = "sleep"

Resurrected(r) ==
  /\ rpc = "returned"
  /\ pc[r] = "done"
  /\ r \in Ids(api_builds)
  /\ r \in Ids(api_history)
  /\ api_logs(r) # << >>
  /\ todo.jobs = << >>

C19_ResetResurrects ==
  \A r \in RunIds : ResetDoneWhileRunning(r) ~> Resurrected(r)

\* reset has returned, everything is empty and the run is still in a delay
C19_Witness ==
  \E r \in RunIds :
    /\ ResetDoneWhileRunning(r)
    /\ run[r].status = "running"
    /\ api_builds = << >>
    /\ api_history = << >>
    /\ \A q \in RunIds : api_logs(q) = << >>
    /\ todo.jobs = << >>

====
